---- MODULE Spec2Model ----
(***************************************************************************)
(* GHOST-PROTOCOL: the panic coordinator (GhostProtocol._trigger_panic),   *)
(* the two security monitors (CameraSentinel, USBGuard) and the main       *)
(* thread of main.py, as one state machine.                                *)
(*                                                                         *)
(* Threads: "main" (GhostProtocol.run and the Tk callbacks), "sig" (the    *)
(* SIGINT/SIGTERM handler, a frame nested on the main thread), "cam" and   *)
(* "usb" (the monitor workers).  pc[c] is the position of thread c in its  *)
(* own code, tpc[c] its position inside _trigger_panic ("idle" when it is  *)
(* not inside).                                                            *)
(*                                                                         *)
(* Spec is the application.  VaultSpec is GhostProtocolVault on its own,   *)
(* with a client that calls encrypt, decrypt and nuke_memory (the          *)
(* application itself only creates the vault and wipes it).  UiSpec is     *)
(* the path of a status update into the GUI: _update_status, the Tk        *)
(* callback queue behind GhostProtocolGUI.update_status, and the main      *)
(* loop that runs the callbacks.  TimedSpec is the two workers' polling    *)
(* of their _running flag, with the time their sleeps take.  LifeSpec is   *)
(* one monitor object under any sequence of start() and stop() calls.      *)
(* Spec itself follows neither the callback queue nor the clock (neither   *)
(* has any effect on what the application does next), and it calls         *)
(* start() once on each monitor, whose worker pc follows.                  *)
(***************************************************************************)
EXTENDS Integers, Sequences, FiniteSets, TLC

\* Bounds of the model (not program constants).
MaxCamSamples == 4      \* processed camera frames per run
MaxUsbSamples == 3      \* token queries of the USB guard per run (baseline included)
MaxFaces == 2           \* largest face count the classifier reports
MaxSamples == 4         \* samples of the two monitors together per run
MaxLen == 2             \* longest plaintext given to encrypt, in characters
MaxVaultCalls == 5      \* calls made on the vault per run
MaxUiEvents == 2        \* status updates made by one thread
MaxTime == 12           \* the clock, in tenths of a second
MaxLifeCalls == 5       \* start() and stop() calls made on one monitor

Monitors == {"cam", "usb"}
Callers == {"main", "sig", "cam", "usb"}
FaceCounts == 0..MaxFaces
TokenOutcomes == {"present", "absent", "error"}

VARIABLES
    bypass_usb,         \* GhostProtocol.bypass_usb
    enable_camera,      \* GhostProtocol.enable_camera
    pc,                 \* position of each thread in its own code
    tpc,                \* position of each thread inside _trigger_panic
    panic_triggered,    \* GhostProtocol._panic_triggered
    panic_lock,         \* GhostProtocol._panic_lock: "free" or the holder
    vault_created,      \* GhostProtocol.vault is not None
    nuked,              \* GhostProtocolVault._nuked
    gui_created,        \* GhostProtocol.gui is not None
    monitor_created,    \* camera_sentinel / usb_guard is not None
    running,            \* SecurityMonitor._running of each monitor
    bypass_mode,        \* USBGuard._bypass_mode
    last_face_count,    \* local of CameraSentinel._monitor_loop
    usb_present,        \* USBGuard._usb_present
    initial_state,      \* local of USBGuard._monitor_loop
    proc,               \* "running", "os_exit" (os._exit) or "exit" (interpreter exit)
    exit_code,          \* the process's exit status, -1 while none is set
    camSamples,         \* history: face counts processed by the camera worker
    camLog,             \* history: callbacks invoked by the camera worker
    usbSamples,         \* history: results of the USB guard's token queries
    usbLog,             \* history: callbacks invoked by the USB guard worker
    winners,            \* history: callers that passed the check-and-set
    seqLog,             \* history: <<caller, step>> of the destructive sequence
    access,             \* history: result of run()'s _check_usb_key
    usb_error,          \* history: the guard's latest token query raised an error
    cam_skipped,        \* history: the camera worker's latest iteration failed
    key,                \* GhostProtocolVault._key
    encrypted_data,     \* GhostProtocolVault._encrypted_data
    iv,                 \* GhostProtocolVault._iv
    wipe_passes,        \* history: os.urandom overwrites done by nuke_memory
    vpc,                \* position of the vault's client inside encrypt
    plaintext,          \* argument of the encrypt call in progress
    decrypted,          \* history: what the latest decrypt call returned
    calls,              \* history: the vault calls made, in order
    tk_loop,            \* Tk's main loop: "not_started", "running" or "ended"
    ui_queue,           \* Tk's queue of `after` callbacks not yet run
    ui_log,             \* history: the status callbacks the main loop has run
    ui_sent,            \* history: number of status updates each thread made
    now,                \* the clock, in tenths of a second
    last_test,          \* when each worker last tested its _running flag
    flag_down_at,       \* history: when stop() cleared each flag, -1 before
    stop_latency,       \* history: how long each stop() took, -1 before it returns
    threads,            \* the Thread objects start() has made: "running" or "ended"
    thread_ref,         \* SecurityMonitor._thread: index in threads, 0 for None
    lifeCalls,          \* history: the start() and stop() calls made, in order
    threatLog           \* history: <<thread, level>> of the threat updates made, in order

cfgVars == <<bypass_usb, enable_camera>>
appVars == <<vault_created, gui_created, monitor_created, bypass_mode, access>>
camVars == <<last_face_count, camSamples, camLog, cam_skipped>>
usbVars == <<usb_present, initial_state, usbSamples, usbLog, usb_error>>
vaultVars == <<key, encrypted_data, iv, wipe_passes>>
clientVars == <<vpc, plaintext, decrypted, calls>>
panicVars == <<panic_triggered, panic_lock, winners>>
procVars == <<proc, exit_code>>
uiVars == <<tk_loop, ui_queue, ui_log, ui_sent>>
timeVars == <<now, last_test, flag_down_at, stop_latency>>
lifeVars == <<threads, thread_ref, lifeCalls>>
sideVars == <<uiVars, timeVars, lifeVars>>
vars == <<bypass_usb, enable_camera, pc, tpc, panic_triggered, panic_lock,
          vault_created, nuked, gui_created, monitor_created, running,
          bypass_mode, last_face_count, usb_present, initial_state, proc,
          exit_code, camSamples, camLog, usbSamples, usbLog, winners, seqLog,
          access, usb_error, cam_skipped, key, encrypted_data, iv,
          wipe_passes, vpc, plaintext, decrypted, calls, tk_loop, ui_queue,
          ui_log, ui_sent, now, last_test, flag_down_at, stop_latency,
          threads, thread_ref, lifeCalls, threatLog>>

\* Nothing calls the vault's encrypt or decrypt: gui.py and main.py never do.
NoClient ==
    /\ vpc = "idle"
    /\ plaintext = <<>>
    /\ decrypted = <<>>
    /\ calls = <<>>

\* The threads that make status updates.
Sources == {"main", "cam", "usb"}

\* No status update has reached the GUI, whose main loop has not started.
NoUi ==
    /\ tk_loop = "not_started"
    /\ ui_queue = <<>>
    /\ ui_log = <<>>
    /\ ui_sent = [src \in Sources |-> 0]

\* The clock at zero, no stop() called.
NoClock ==
    /\ now = 0
    /\ last_test = [m \in Monitors |-> 0]
    /\ flag_down_at = [m \in Monitors |-> -1]
    /\ stop_latency = [m \in Monitors |-> -1]

\* No start() or stop() call made: self._thread is None.
NoLife ==
    /\ threads = <<>>
    /\ thread_ref = 0
    /\ lifeCalls = <<>>

(***************************************************************************)
(* State after GhostProtocol.__init__: nothing created, handlers           *)
(* registered, run() about to check the USB key.                           *)
(***************************************************************************)
Init ==
    /\ bypass_usb \in BOOLEAN
    /\ enable_camera \in BOOLEAN
    /\ pc = [c \in Callers |->
                CASE c = "main" -> "check_usb"
                  [] c = "sig" -> "idle"
                  [] OTHER -> "none"]
    /\ tpc = [c \in Callers |-> "idle"]
    /\ panic_triggered = FALSE
    /\ panic_lock = "free"
    /\ vault_created = FALSE
    /\ nuked = FALSE
    /\ gui_created = FALSE
    /\ monitor_created = [m \in Monitors |-> FALSE]
    /\ running = [m \in Monitors |-> FALSE]
    /\ bypass_mode = FALSE
    /\ last_face_count = 1
    /\ usb_present = FALSE
    /\ initial_state = FALSE
    /\ proc = "running"
    /\ exit_code = -1
    /\ camSamples = <<>>
    /\ camLog = <<>>
    /\ usbSamples = <<>>
    /\ usbLog = <<>>
    /\ winners = <<>>
    /\ seqLog = <<>>
    /\ access = "pending"
    /\ usb_error = FALSE
    /\ cam_skipped = FALSE
    /\ key = <<>>
    /\ encrypted_data = <<>>
    /\ iv = <<>>
    /\ wipe_passes = 0
    /\ NoClient
    /\ NoUi
    /\ NoClock
    /\ NoLife
    /\ threatLog = <<>>

\* The threat updates among the callbacks a worker makes, as threatLog
\* records them.
ThreatUpdates(m, events) ==
    IF \E i \in 1..Len(events) : events[i] = "threat=CRITICAL"
       THEN <<<<m, "CRITICAL">>>> ELSE <<>>

\* A thread can take a step: the process lives, and the main thread's own
\* frames are suspended while a signal handler runs on top of them.
Runnable(c) ==
    /\ proc = "running"
    /\ (c = "main" => pc["sig"] = "idle")
    /\ (c = "sig" => pc["sig"] = "handler")

\* The main thread is at position p of run(), outside _trigger_panic.
MainAt(p) == Runnable("main") /\ pc["main"] = p /\ tpc["main"] = "idle"

\* USBGuard.check_ghost_key_present: an enumeration error is caught and
\* reported as "not present".
check_ghost_key_present(outcome) == outcome = "present"

(***************************************************************************)
(* GhostProtocolVault.  Byte strings are sequences of bytes.  A random     *)
(* string is symbolic: all its bytes carry the name of the draw that made  *)
(* it, so two draws never agree.  Text is a sequence of characters.        *)
(***************************************************************************)

\* Sizes written in the vault's code: an AES-256 key, a GCM nonce, and the
\* number of random overwrites of each field.
KeyLen == 32
IvLen == 16
OverwritePasses == 3

ZeroByte == "00"

\* Crypto.Random.get_random_bytes(n), the draw named.
get_random_bytes(n, draw) == [i \in 1..n |-> draw]

\* The characters of the model: "a" (one byte in UTF-8), "E" (an accented
\* letter, two bytes) and "S" (a lone surrogate, which cannot be encoded).
Chars == {"a", "E", "S"}

\* The texts the client may give to encrypt.
Plaintexts == UNION {[1..n -> Chars] : n \in 0..MaxLen}

\* str.encode('utf-8') succeeds.
Encodable(s) == \A i \in 1..Len(s) : s[i] # "S"

\* str.encode('utf-8') of an encodable text.
RECURSIVE Utf8Encode(_)
Utf8Encode(s) ==
    IF s = <<>> THEN <<>>
    ELSE (IF Head(s) = "a" THEN <<"61">> ELSE <<"c3", "a9">>) \o Utf8Encode(Tail(s))

\* bytes.decode('utf-8') succeeds.
RECURSIVE Decodable(_)
Decodable(b) ==
    \/ b = <<>>
    \/ b[1] = "61" /\ Decodable(Tail(b))
    \/ Len(b) >= 2 /\ b[1] = "c3" /\ b[2] = "a9" /\ Decodable(SubSeq(b, 3, Len(b)))

\* bytes.decode('utf-8') of decodable bytes.
RECURSIVE Utf8Decode(_)
Utf8Decode(b) ==
    IF b = <<>> THEN <<>>
    ELSE IF b[1] = "61" THEN <<"a">> \o Utf8Decode(Tail(b))
    ELSE <<"E">> \o Utf8Decode(SubSeq(b, 3, Len(b)))

\* AES.new(key, AES.MODE_GCM, nonce=nonce) accepts the key and the nonce;
\* otherwise it raises ValueError.
AES_new(k, nonce) == Len(k) \in {16, 24, 32} /\ nonce # <<>>

\* cipher.encrypt_and_digest(bytes), the ciphertext: as long as the input,
\* each byte combined with the key stream that key and nonce determine.
encrypt_and_digest(k, nonce, bytes) ==
    [i \in 1..Len(bytes) |-> <<bytes[i], k[1], nonce[1]>>]

\* cipher.decrypt(data): the input bytes under the key stream that made
\* the ciphertext, garbage under any other.
cipher_decrypt(k, nonce, data) ==
    [i \in 1..Len(data) |->
        IF data[i][2] = k[1] /\ data[i][3] = nonce[1] THEN data[i][1] ELSE "ff"]

\* The vault object.
Vault ==
    [key |-> key, encrypted_data |-> encrypted_data, iv |-> iv,
     nuked |-> nuked, wipe_passes |-> wipe_passes]

\* GhostProtocolVault.__init__
NewVault ==
    [key |-> get_random_bytes(KeyLen, "key"), encrypted_data |-> <<>>,
     iv |-> <<>>, nuked |-> FALSE, wipe_passes |-> 0]

\* nuke_memory: `if self._nuked: return`
NukeReturnsEarly_Never(v) == FALSE
NukeReturnsEarly(v) == v.nuked

\* nuke_memory: the key at the end of the try block.
WipedKey(key_len) == [i \in 1..key_len |-> ZeroByte]

\* The os.urandom call that raises inside nuke_memory, if any: the first
\* overwrite of the key, of the ciphertext (none is made when it is
\* empty) or of the IV.
FailPoints(v) ==
    {"none", "key", "iv"} \cup (IF v.encrypted_data # <<>> THEN {"data"} ELSE {})

\* Random overwrites completed when nuke_memory ends.
PassesDone(v, fail) ==
    LET data_passes == IF v.encrypted_data # <<>> THEN OverwritePasses ELSE 0
    IN  CASE fail = "key" -> 0
          [] fail = "data" -> OverwritePasses
          [] fail = "iv" -> OverwritePasses + data_passes
          [] OTHER -> OverwritePasses + data_passes + OverwritePasses

\* nuke_memory on vault v, the os.urandom call named by fail raising.
nuke_memory(v, fail) ==
    IF NukeReturnsEarly(v) THEN v
    ELSE LET key_len == IF v.key # <<>> THEN Len(v.key) ELSE KeyLen
             passes == v.wipe_passes + PassesDone(v, fail)
         IN  IF fail = "none"
                THEN [key |-> WipedKey(key_len), encrypted_data |-> <<>>,
                      iv |-> <<>>, nuked |-> TRUE, wipe_passes |-> passes]
                ELSE [key |-> <<>>, encrypted_data |-> <<>>,
                      iv |-> <<>>, nuked |-> TRUE, wipe_passes |-> passes]

\* nuke_memory: `except Exception` around the overwrites, so no failure
\* of an overwrite leaves the method.
NukePropagates_Uncaught(fail) == fail # "none"
NukePropagates(fail) == FALSE

\* nuke_memory on vault v ends by raising.
NukeRaises(v, fail) == ~NukeReturnsEarly(v) /\ NukePropagates(fail)

\* The vault becomes v.
VaultBecomes(v) ==
    /\ key' = v.key
    /\ encrypted_data' = v.encrypted_data
    /\ iv' = v.iv
    /\ nuked' = v.nuked
    /\ wipe_passes' = v.wipe_passes

\* decrypt: `if self._nuked or not self._encrypted_data: return ""`
DecryptReturnsEarly(v) == v.nuked \/ v.encrypted_data = <<>>

\* decrypt(): the empty string for a wiped or empty vault and on any
\* exception, the decoded plaintext otherwise.
decrypt(v) ==
    IF DecryptReturnsEarly(v) THEN <<>>
    ELSE IF ~AES_new(v.key, v.iv) THEN <<>>
    ELSE LET plaintext_bytes == cipher_decrypt(v.key, v.iv, v.encrypted_data)
         IN  IF Decodable(plaintext_bytes) THEN Utf8Decode(plaintext_bytes) ELSE <<>>

(***************************************************************************)
(* The main thread: GhostProtocol.run, _start_monitors, the Tk main loop,  *)
(* and interpreter shutdown (sys.exit, atexit).                            *)
(***************************************************************************)

\* run(): `if not self._check_usb_key(): return 1`
AfterUsbCheck_Ignored(ok) == "create_vault"
AfterUsbCheck(ok) == IF ok THEN "create_vault" ELSE "return1"

\* run() checks the USB key.  In bypass mode the token is not queried at all.
MainCheckUsb ==
    /\ MainAt("check_usb")
    /\ \E outcome \in TokenOutcomes :
          LET ok == bypass_usb \/ check_ghost_key_present(outcome)
          IN  /\ pc' = [pc EXCEPT !["main"] = AfterUsbCheck(ok)]
              /\ access' = IF ok THEN "granted" ELSE "denied"
    /\ UNCHANGED <<cfgVars, sideVars, threatLog, clientVars, vaultVars, tpc, panicVars, vault_created,
                   gui_created, monitor_created, bypass_mode, nuked, running,
                   camVars, usbVars, procVars, seqLog>>

\* run(): self.vault = GhostProtocolVault()
MainCreateVault ==
    /\ MainAt("create_vault")
    /\ vault_created' = TRUE
    /\ VaultBecomes(NewVault)
    /\ pc' = [pc EXCEPT !["main"] = "create_gui"]
    /\ UNCHANGED <<cfgVars, sideVars, threatLog, clientVars, tpc, panicVars, gui_created, monitor_created,
                   bypass_mode, access, running, camVars, usbVars, procVars, seqLog>>

\* run(): self.gui = GhostProtocolGUI(...)
MainCreateGui ==
    /\ MainAt("create_gui")
    /\ gui_created' = TRUE
    /\ pc' = [pc EXCEPT !["main"] = "cam_create"]
    /\ UNCHANGED <<cfgVars, sideVars, threatLog, clientVars, vaultVars, tpc, panicVars, vault_created, monitor_created,
                   bypass_mode, access, nuked, running, camVars, usbVars, procVars, seqLog>>

\* _start_monitors(): the camera sentinel is constructed only when enabled.
MainCreateCamera ==
    /\ MainAt("cam_create")
    /\ IF enable_camera
          THEN /\ monitor_created' = [monitor_created EXCEPT !["cam"] = TRUE]
               /\ pc' = [pc EXCEPT !["main"] = "cam_start1"]
          ELSE /\ pc' = [pc EXCEPT !["main"] = "usb_create"]
               /\ UNCHANGED monitor_created
    /\ UNCHANGED <<cfgVars, sideVars, threatLog, clientVars, vaultVars, tpc, panicVars, vault_created, gui_created,
                   bypass_mode, access, nuked, running, camVars, usbVars, procVars, seqLog>>

\* _start_monitors(): the USB guard is constructed, and put in bypass mode
\* when the application was started with --bypass-usb.
MainCreateUsb ==
    /\ MainAt("usb_create")
    /\ monitor_created' = [monitor_created EXCEPT !["usb"] = TRUE]
    /\ bypass_mode' = bypass_usb
    /\ pc' = [pc EXCEPT !["main"] = "usb_start1"]
    /\ UNCHANGED <<cfgVars, sideVars, threatLog, clientVars, vaultVars, tpc, panicVars, vault_created, gui_created,
                   access, nuked, running, camVars, usbVars, procVars, seqLog>>

\* SecurityMonitor.start(), first half: the flag is raised and the Thread
\* object is built, not yet started.
MainStart1(m) ==
    /\ MainAt(m \o "_start1")
    /\ running' = [running EXCEPT ![m] = TRUE]
    /\ pc' = [pc EXCEPT !["main"] = m \o "_start2", ![m] = "created"]
    /\ UNCHANGED <<cfgVars, sideVars, threatLog, clientVars, vaultVars, tpc, panicVars, appVars, nuked, camVars, usbVars,
                   procVars, seqLog>>

\* SecurityMonitor.start(), second half: self._thread.start().
MainStart2(m) ==
    /\ MainAt(m \o "_start2")
    /\ pc' = [pc EXCEPT !["main"] = IF m = "cam" THEN "usb_create" ELSE "threat_low",
                        ![m] = "begin"]
    /\ UNCHANGED <<cfgVars, sideVars, threatLog, clientVars, vaultVars, tpc, panicVars, appVars, nuked, running, camVars,
                   usbVars, procVars, seqLog>>

\* _start_monitors(): self._update_status("threat", "LOW"); run() then
\* enters the GUI main loop.
MainThreatLow ==
    /\ MainAt("threat_low")
    /\ pc' = [pc EXCEPT !["main"] = "mainloop"]
    /\ threatLog' = Append(threatLog, <<"main", "LOW">>)
    /\ UNCHANGED <<cfgVars, sideVars, clientVars, vaultVars, tpc, panicVars, appVars, nuked, running, camVars,
                   usbVars, procVars, seqLog>>

\* The emergency button or Escape: _on_panic_button calls the panic callback.
MainPanicButton ==
    /\ MainAt("mainloop")
    /\ tpc' = [tpc EXCEPT !["main"] = "acquire"]
    /\ UNCHANGED <<cfgVars, sideVars, threatLog, clientVars, vaultVars, pc, panicVars, appVars, nuked, running, camVars,
                   usbVars, procVars, seqLog>>

\* The GUI main loop ends (window closed, or KeyboardInterrupt).
MainLoopEnds ==
    /\ MainAt("mainloop")
    /\ pc' = [pc EXCEPT !["main"] = "finally"]
    /\ UNCHANGED <<cfgVars, sideVars, threatLog, clientVars, vaultVars, tpc, panicVars, appVars, nuked, running, camVars,
                   usbVars, procVars, seqLog>>

\* Normal shutdown, in run()'s finally and in the atexit hook:
\* `if not self._panic_triggered: self._trigger_panic()`, the flag read
\* without the lock.
ShutdownCallsTrigger_Never(flag) == FALSE
ShutdownCallsTrigger(flag) == ~flag

\* run(), finally.
MainFinally ==
    /\ MainAt("finally")
    /\ IF ShutdownCallsTrigger(panic_triggered)
          THEN tpc' = [tpc EXCEPT !["main"] = "acquire"] /\ UNCHANGED pc
          ELSE pc' = [pc EXCEPT !["main"] = "return0"] /\ UNCHANGED tpc
    /\ UNCHANGED <<cfgVars, sideVars, threatLog, clientVars, vaultVars, panicVars, appVars, nuked, running, camVars,
                   usbVars, procVars, seqLog>>

\* run() returns and main() hands the value to sys.exit.
MainReturn ==
    /\ \/ MainAt("return0") /\ exit_code' = 0
       \/ MainAt("return1") /\ exit_code' = 1
    /\ pc' = [pc EXCEPT !["main"] = "atexit"]
    /\ UNCHANGED <<cfgVars, sideVars, threatLog, clientVars, vaultVars, tpc, panicVars, appVars, nuked, running, camVars,
                   usbVars, proc, seqLog>>

\* _cleanup, the atexit hook.
MainAtexit ==
    /\ MainAt("atexit")
    /\ IF ShutdownCallsTrigger(panic_triggered)
          THEN tpc' = [tpc EXCEPT !["main"] = "acquire"] /\ UNCHANGED pc
          ELSE pc' = [pc EXCEPT !["main"] = "fini"] /\ UNCHANGED tpc
    /\ UNCHANGED <<cfgVars, sideVars, threatLog, clientVars, vaultVars, panicVars, appVars, nuked, running, camVars,
                   usbVars, procVars, seqLog>>

\* The interpreter exits with the status set by sys.exit (or by the
\* uncaught exception); the daemon workers die with it.
MainFini ==
    /\ MainAt("fini")
    /\ proc' = "exit"
    /\ UNCHANGED <<cfgVars, sideVars, threatLog, clientVars, vaultVars, pc, tpc, panicVars, appVars, nuked, running,
                   camVars, usbVars, exit_code, seqLog>>

(***************************************************************************)
(* GhostProtocol._trigger_panic, run by caller c.                          *)
(***************************************************************************)

\* `with self._panic_lock`: a threading.Lock, not reentrant: it can be
\* taken only while nobody holds it, the holder's own thread included.
LockAvailable_NoMutex == TRUE
LockAvailable == panic_lock = "free"

\* Who holds the lock once caller c has found the flag clear: the with
\* block spans the test and the assignment, so c holds it until the flag
\* is set.
LockAfterCheck_Released(c) == "free"
LockAfterCheck(c) == c

\* The first step of the destructive sequence, right after the flag is set.
AfterCheckAndSet_WipeFirst == "wipe"
AfterCheckAndSet == "stop_cam"

\* Thread.join raises RuntimeError when the thread to join is the calling
\* thread or has not been started; `self._thread is not None` once start()
\* has built the Thread object.
JoinRaises(m, c) == pc[m] # "none" /\ (c = m \/ pc[m] = "created")

\* Where the main thread continues when its _trigger_panic call returns.
MainAfterTrigger(p) ==
    CASE p = "finally" -> "return0"
      [] p = "atexit" -> "fini"
      [] OTHER -> p

\* `while self._running:`, evaluated at the end of an iteration (after its
\* sleep) and once before the first; run is the flags at that moment.  At
\* "body" the worker has passed the test and its iteration is in progress.
LoopTest_Forever(m, run) == "body"
LoopTest(m, run) == IF run[m] THEN "body" ELSE "done"

\* Where a worker continues when its panic callback returns: `break`.
CamAfterPanicReturn_NoBreak(run) == LoopTest("cam", run)
CamAfterPanicReturn(run) == "done"

UsbAfterPanicReturn_NoBreak(run) == LoopTest("usb", run)
UsbAfterPanicReturn(run) == "done"

\* _trigger_panic returns to its caller (the call was a no-op).
AfterReturn(c) ==
    CASE c = "main" -> [pc EXCEPT !["main"] = MainAfterTrigger(pc["main"])]
      [] c = "sig" -> [pc EXCEPT !["sig"] = "idle"]
      [] c = "cam" -> [pc EXCEPT !["cam"] = CamAfterPanicReturn(running)]
      [] c = "usb" -> [pc EXCEPT !["usb"] = UsbAfterPanicReturn(running)]

\* An exception leaves _trigger_panic, the flags being run.  The camera
\* loop catches it (`except Exception`) and goes on to its sleep and loop
\* test; the USB loop has no handler, so its thread dies; on the main
\* thread, in the handler or not, it is uncaught and the interpreter shuts
\* down.
AfterRaise(c, run) ==
    CASE c = "main" -> [pc EXCEPT !["main"] = "atexit"]
      [] c = "sig" -> [pc EXCEPT !["sig"] = "idle", !["main"] = "atexit"]
      [] c = "cam" -> [pc EXCEPT !["cam"] = LoopTest("cam", run)]
      [] c = "usb" -> [pc EXCEPT !["usb"] = "done"]

\* The exception unwinds every frame of the thread it is raised on.
TpcAfterRaise(c) ==
    IF c \in {"main", "sig"}
       THEN [tpc EXCEPT !["main"] = "idle", !["sig"] = "idle"]
       ELSE [tpc EXCEPT ![c] = "idle"]

ExitCodeAfterRaise(c) == IF c \in {"main", "sig"} THEN 1 ELSE exit_code

\* `with self._panic_lock: if self._panic_triggered: return`.  A call that
\* finds the flag set takes the lock, returns and releases it in one step;
\* a call that finds it clear holds the lock until it has set the flag.
TEnter(c) ==
    /\ Runnable(c)
    /\ tpc[c] = "acquire"
    /\ LockAvailable
    /\ IF panic_triggered
          THEN /\ tpc' = [tpc EXCEPT ![c] = "idle"]
               /\ pc' = AfterReturn(c)
               /\ UNCHANGED panic_lock
          ELSE /\ tpc' = [tpc EXCEPT ![c] = "set"]
               /\ panic_lock' = LockAfterCheck(c)
               /\ UNCHANGED pc
    /\ UNCHANGED <<cfgVars, sideVars, threatLog, clientVars, vaultVars, panic_triggered, winners, appVars, nuked, running,
                   camVars, usbVars, procVars, seqLog>>

\* `self._panic_triggered = True`, and the with block ends.
TSet(c) ==
    /\ Runnable(c)
    /\ tpc[c] = "set"
    /\ panic_triggered' = TRUE
    /\ panic_lock' = "free"
    /\ winners' = Append(winners, c)
    /\ tpc' = [tpc EXCEPT ![c] = AfterCheckAndSet]
    /\ UNCHANGED <<cfgVars, sideVars, threatLog, clientVars, vaultVars, pc, appVars, nuked, running, camVars, usbVars,
                   procVars, seqLog>>

\* SecurityMonitor.stop: `self._running = False`, before the join.
StopClearsFlag_Never(run, m) == run
StopClearsFlag(run, m) == [run EXCEPT ![m] = FALSE]

\* _stop_monitors(), one monitor: `if self.<monitor>: self.<monitor>.stop()`.
\* stop() clears _running and then joins the worker for at most 2 seconds;
\* the join returns whether or not the worker has exited, or raises.
TStop(c, m) ==
    /\ Runnable(c)
    /\ tpc[c] = "stop_" \o m
    /\ IF monitor_created[m]
          THEN /\ running' = StopClearsFlag(running, m)
               /\ seqLog' = Append(seqLog, <<c, "stop_" \o m>>)
               /\ IF JoinRaises(m, c)
                     THEN /\ tpc' = TpcAfterRaise(c)
                          /\ pc' = AfterRaise(c, running')
                          /\ exit_code' = ExitCodeAfterRaise(c)
                     ELSE /\ tpc' = [tpc EXCEPT ![c] =
                                        IF m = "cam" THEN "stop_usb" ELSE "wipe"]
                          /\ UNCHANGED <<pc, exit_code>>
          ELSE /\ tpc' = [tpc EXCEPT ![c] =
                             IF m = "cam" THEN "stop_usb" ELSE "wipe"]
               /\ UNCHANGED <<pc, running, seqLog, exit_code>>
    /\ UNCHANGED <<cfgVars, sideVars, threatLog, clientVars, vaultVars, panicVars, appVars, nuked, camVars, usbVars, proc>>

\* `if self.vault: self.vault.nuke_memory()`, any of nuke_memory's
\* overwrites failing; were the call to raise, the exception would leave
\* _trigger_panic.
TWipe(c) ==
    /\ Runnable(c)
    /\ tpc[c] = "wipe"
    /\ IF vault_created
          THEN \E fail \in FailPoints(Vault) :
                  /\ VaultBecomes(nuke_memory(Vault, fail))
                  /\ seqLog' = Append(seqLog, <<c, "wipe">>)
                  /\ IF NukeRaises(Vault, fail)
                        THEN /\ tpc' = TpcAfterRaise(c)
                             /\ pc' = AfterRaise(c, running)
                             /\ exit_code' = ExitCodeAfterRaise(c)
                        ELSE /\ tpc' = [tpc EXCEPT ![c] = "notify"]
                             /\ UNCHANGED <<pc, exit_code>>
          ELSE /\ tpc' = [tpc EXCEPT ![c] = "notify"]
               /\ UNCHANGED <<vaultVars, nuked, seqLog, pc, exit_code>>
    /\ UNCHANGED <<cfgVars, sideVars, threatLog, clientVars, panicVars, appVars, running, camVars, usbVars,
                   proc>>

\* The UI notification: `try: ... except Exception: pass`, so a failure of
\* show_wipe_animation or clear_secrets does not leave _trigger_panic.
NotifyRaises_Uncaught(ui_fails) == ui_fails
NotifyRaises(ui_fails) == FALSE

\* `if self.gui:` show_wipe_animation and clear_secrets; either may raise
\* (the calls reach Tk from whatever thread the caller is).
TNotify(c) ==
    /\ Runnable(c)
    /\ tpc[c] = "notify"
    /\ IF gui_created
          THEN \E ui_fails \in BOOLEAN :
                  /\ seqLog' = Append(seqLog,
                         <<c, IF ui_fails THEN "notify_failed" ELSE "notify">>)
                  /\ IF NotifyRaises(ui_fails)
                        THEN /\ tpc' = TpcAfterRaise(c)
                             /\ pc' = AfterRaise(c, running)
                             /\ exit_code' = ExitCodeAfterRaise(c)
                        ELSE /\ tpc' = [tpc EXCEPT ![c] = "exit"]
                             /\ UNCHANGED <<pc, exit_code>>
          ELSE /\ tpc' = [tpc EXCEPT ![c] = "exit"]
               /\ UNCHANGED <<seqLog, pc, exit_code>>
    /\ UNCHANGED <<cfgVars, sideVars, threatLog, clientVars, vaultVars, panicVars, appVars, nuked, running, camVars,
                   usbVars, proc>>

\* os._exit(0): the process is gone, no thread takes another step.
TExit(c) ==
    /\ Runnable(c)
    /\ tpc[c] = "exit"
    /\ proc' = "os_exit"
    /\ exit_code' = 0
    /\ seqLog' = Append(seqLog, <<c, "exit">>)
    /\ UNCHANGED <<cfgVars, sideVars, threatLog, clientVars, vaultVars, pc, tpc, panicVars, appVars, nuked, running,
                   camVars, usbVars>>

\* SIGINT or SIGTERM arrives: _signal_handler runs on the main thread, on
\* top of whatever the main thread was doing, and calls _trigger_panic.
\* The handler's call is followed up to its `with self._panic_lock`: with
\* the lock free it enters at once (and returns at once when the flag is
\* set: nothing changes); with the lock held it waits, the main thread
\* suspended under it.
SignalDelivered ==
    /\ proc = "running"
    /\ pc["sig"] = "idle"
    /\ IF LockAvailable
          THEN IF panic_triggered
                  THEN UNCHANGED <<pc, tpc, panic_lock>>
                  ELSE /\ pc' = [pc EXCEPT !["sig"] = "handler"]
                       /\ tpc' = [tpc EXCEPT !["sig"] = "set"]
                       /\ panic_lock' = LockAfterCheck("sig")
          ELSE /\ pc' = [pc EXCEPT !["sig"] = "handler"]
               /\ tpc' = [tpc EXCEPT !["sig"] = "acquire"]
               /\ UNCHANGED panic_lock
    /\ UNCHANGED <<cfgVars, sideVars, threatLog, clientVars, vaultVars, panic_triggered, winners, appVars, nuked, running,
                   camVars, usbVars, procVars, seqLog>>

(***************************************************************************)
(* CameraSentinel._monitor_loop, the worker "cam".                         *)
(***************************************************************************)

\* _initialize_camera: the cascade fails to load (no status), the camera
\* cannot be opened ("NO CAMERA"), an exception ("ERROR"), or success
\* ("ARMED").  On failure the worker idles in standby; on success it sets
\* last_face_count and makes the first loop test.
CamBegin ==
    /\ Runnable("cam")
    /\ pc["cam"] = "begin"
    /\ \E outcome \in {"cascade_empty", "no_camera", "error", "ok"} :
          /\ camLog' = CASE outcome = "cascade_empty" -> camLog
                         [] outcome = "no_camera" -> Append(camLog, "camera=NO CAMERA")
                         [] outcome = "error" -> Append(camLog, "camera=ERROR")
                         [] outcome = "ok" -> Append(camLog, "camera=ARMED")
          /\ pc' = [pc EXCEPT !["cam"] = IF outcome = "ok"
                                            THEN LoopTest("cam", running)
                                            ELSE "standby"]
    /\ last_face_count' = 1
    /\ UNCHANGED <<cfgVars, sideVars, threatLog, clientVars, vaultVars, tpc, panicVars, appVars, nuked, running, camSamples,
                   cam_skipped,
                   usbVars, procVars, seqLog>>

\* Degraded mode: `while self._running: time.sleep(1.0)`, then return.
CamStandbyExit ==
    /\ Runnable("cam")
    /\ pc["cam"] = "standby"
    /\ ~running["cam"]
    /\ pc' = [pc EXCEPT !["cam"] = "done"]
    /\ UNCHANGED <<cfgVars, sideVars, threatLog, clientVars, vaultVars, tpc, panicVars, appVars, nuked, running, camVars,
                   usbVars, procVars, seqLog>>

\* Side effects of a 0 or 1 sample fire only when the count differs from
\* the last processed one.
CamEdge_EverySample(last, n) == TRUE
CamEdge(last, n) == last # n

\* `last_face_count = face_count`, at the end of an iteration that found
\* at most one face.
RememberedCount_Stale(last, n) == last
RememberedCount(last, n) == n

\* What the worker calls for a processed sample of n faces.
CamEvents(last, n) ==
    CASE n = 0 -> IF CamEdge(last, n) THEN <<"camera=LOCKED", "blur=True">> ELSE <<>>
      [] n = 1 -> IF CamEdge(last, n) THEN <<"camera=ARMED", "blur=False">> ELSE <<>>
      [] OTHER -> <<"camera=BREACH", "threat=CRITICAL", "panic">>

\* One iteration with a frame: count the faces and act on the count.  More
\* than one face calls the panic callback; otherwise the count is
\* remembered, and the loop sleeps and tests its flag again.  When the
\* flag is down the loop ends and the capture is released.
CamSample ==
    /\ Runnable("cam")
    /\ pc["cam"] = "body"
    /\ tpc["cam"] = "idle"
    /\ Len(camSamples) < MaxCamSamples
    /\ Len(camSamples) + Len(usbSamples) < MaxSamples
    /\ \E n \in FaceCounts :
          /\ camSamples' = Append(camSamples, n)
          /\ camLog' = camLog \o CamEvents(last_face_count, n)
          /\ threatLog' = threatLog \o ThreatUpdates("cam", CamEvents(last_face_count, n))
          /\ cam_skipped' = FALSE
          /\ IF n > 1
                THEN /\ tpc' = [tpc EXCEPT !["cam"] = "acquire"]
                     /\ UNCHANGED <<pc, last_face_count>>
                ELSE /\ last_face_count' = RememberedCount(last_face_count, n)
                     /\ pc' = [pc EXCEPT !["cam"] = LoopTest("cam", running)]
                     /\ UNCHANGED tpc
    /\ UNCHANGED <<cfgVars, sideVars, clientVars, vaultVars, panicVars, appVars, nuked, running, usbVars,
                   procVars, seqLog>>

\* What the worker calls for an iteration without a usable frame: nothing.
CamFailEvents_AsAbsent(last) == CamEvents(last, 0)
CamFailEvents(last) == <<>>

\* One iteration without a usable frame: cap.read() gives no frame, or the
\* processing raises; the sample is skipped, and the loop sleeps and tests
\* its flag again.
CamSampleFail ==
    /\ Runnable("cam")
    /\ pc["cam"] = "body"
    /\ tpc["cam"] = "idle"
    /\ camLog' = camLog \o CamFailEvents(last_face_count)
    /\ cam_skipped' = TRUE
    /\ pc' = [pc EXCEPT !["cam"] = LoopTest("cam", running)]
    /\ UNCHANGED <<cfgVars, sideVars, threatLog, clientVars, vaultVars, tpc, panicVars, appVars, nuked, running,
                   last_face_count, camSamples, usbVars, procVars, seqLog>>

(***************************************************************************)
(* USBGuard._monitor_loop, the worker "usb".                               *)
(***************************************************************************)

\* The loop reads the bypass flag once, when the worker begins.
UsbBypassed_Ignored == FALSE
UsbBypassed == bypass_mode

\* The trip condition: the token was present at the baseline and is not now.
UsbTrips_AnyAbsence(initial, current) == ~current
UsbTrips(initial, current) == initial /\ ~current

\* The baseline after a later query: initial_state is a local assigned
\* once, before the loop, and the loop only reads it.
BaselineAfterQuery_Tracks(initial, current) == current
BaselineAfterQuery(initial, current) == initial

\* What the worker calls for a later query, given the previous result.
UsbEvents(initial, previous, current) ==
    IF UsbTrips(initial, current)
       THEN <<"usb=REMOVED", "threat=CRITICAL", "panic">>
       ELSE IF current /\ ~previous THEN <<"usb=SECURE">>
       ELSE IF ~current /\ previous THEN <<"usb=NO KEY">>
       ELSE <<>>

\* The beginning of the loop: in bypass mode report BYPASSED and idle;
\* otherwise query the token once, report it, and keep it as the baseline.
UsbBegin ==
    /\ Runnable("usb")
    /\ pc["usb"] = "begin"
    /\ IF UsbBypassed
          THEN /\ usbLog' = Append(usbLog, "usb=BYPASSED")
               /\ pc' = [pc EXCEPT !["usb"] = "bypass"]
               /\ UNCHANGED <<usb_present, initial_state, usbSamples, usb_error>>
          ELSE \E outcome \in TokenOutcomes :
                  LET present == check_ghost_key_present(outcome)
                  IN  /\ usb_present' = present
                      /\ usb_error' = (outcome = "error")
                      /\ initial_state' = present
                      /\ usbSamples' = Append(usbSamples, present)
                      /\ usbLog' = Append(usbLog,
                                     IF present THEN "usb=SECURE" ELSE "usb=NO KEY")
                      /\ pc' = [pc EXCEPT !["usb"] = LoopTest("usb", running)]
    /\ UNCHANGED <<cfgVars, sideVars, threatLog, clientVars, vaultVars, tpc, panicVars, appVars, nuked, running, camVars,
                   procVars, seqLog>>

\* Bypass mode: `while self._running: time.sleep(...)`, then return.
UsbBypassExit ==
    /\ Runnable("usb")
    /\ pc["usb"] = "bypass"
    /\ ~running["usb"]
    /\ pc' = [pc EXCEPT !["usb"] = "done"]
    /\ UNCHANGED <<cfgVars, sideVars, threatLog, clientVars, vaultVars, tpc, panicVars, appVars, nuked, running, camVars,
                   usbVars, procVars, seqLog>>

\* One iteration: query the token; trip, or report a change, remember the
\* result, sleep and test the flag again.
UsbSample ==
    /\ Runnable("usb")
    /\ pc["usb"] = "body"
    /\ tpc["usb"] = "idle"
    /\ Len(usbSamples) < MaxUsbSamples
    /\ Len(camSamples) + Len(usbSamples) < MaxSamples
    /\ \E outcome \in TokenOutcomes :
          LET current == check_ghost_key_present(outcome)
          IN  /\ usbSamples' = Append(usbSamples, current)
              /\ usb_error' = (outcome = "error")
              /\ usbLog' = usbLog \o UsbEvents(initial_state, usb_present, current)
              /\ threatLog' = threatLog \o
                    ThreatUpdates("usb", UsbEvents(initial_state, usb_present, current))
              /\ initial_state' = BaselineAfterQuery(initial_state, current)
              /\ IF UsbTrips(initial_state, current)
                    THEN /\ tpc' = [tpc EXCEPT !["usb"] = "acquire"]
                         /\ UNCHANGED <<pc, usb_present>>
                    ELSE /\ usb_present' = current
                         /\ pc' = [pc EXCEPT !["usb"] = LoopTest("usb", running)]
                         /\ UNCHANGED tpc
    /\ UNCHANGED <<cfgVars, sideVars, clientVars, vaultVars, panicVars, appVars, nuked, running,
                   camVars, procVars, seqLog>>

(***************************************************************************)
(* The program.                                                            *)
(***************************************************************************)
Next ==
    \/ MainCheckUsb
    \/ MainCreateVault
    \/ MainCreateGui
    \/ MainCreateCamera
    \/ MainCreateUsb
    \/ \E m \in Monitors : MainStart1(m)
    \/ \E m \in Monitors : MainStart2(m)
    \/ MainThreatLow
    \/ MainPanicButton
    \/ MainLoopEnds
    \/ MainFinally
    \/ MainReturn
    \/ MainAtexit
    \/ MainFini
    \/ SignalDelivered
    \/ \E c \in Callers : TEnter(c)
    \/ \E c \in Callers : TSet(c)
    \/ \E c \in Callers, m \in Monitors : TStop(c, m)
    \/ \E c \in Callers : TWipe(c)
    \/ \E c \in Callers : TNotify(c)
    \/ \E c \in Callers : TExit(c)
    \/ CamBegin
    \/ CamStandbyExit
    \/ CamSample
    \/ CamSampleFail
    \/ UsbBegin
    \/ UsbBypassExit
    \/ UsbSample

Spec == Init /\ [][Next]_vars

(***************************************************************************)
(* The vault on its own: a client thread calls encrypt and decrypt, and    *)
(* nuke_memory is called from another thread, any number of times and at   *)
(* any moment.  The application around the vault stands still.             *)
(***************************************************************************)

\* Everything but the vault and its client.
restVars ==
    <<cfgVars, threatLog, sideVars, pc, tpc, panicVars, appVars, running, camVars, usbVars,
      procVars, seqLog>>

\* A vault just constructed, as run() constructs it, and nothing else done.
VaultInit ==
    /\ bypass_usb = TRUE
    /\ enable_camera = FALSE
    /\ pc = [c \in Callers |->
                CASE c = "main" -> "create_gui"
                  [] c = "sig" -> "idle"
                  [] OTHER -> "none"]
    /\ tpc = [c \in Callers |-> "idle"]
    /\ panic_triggered = FALSE
    /\ panic_lock = "free"
    /\ vault_created = TRUE
    /\ gui_created = FALSE
    /\ monitor_created = [m \in Monitors |-> FALSE]
    /\ running = [m \in Monitors |-> FALSE]
    /\ bypass_mode = FALSE
    /\ last_face_count = 1
    /\ usb_present = FALSE
    /\ initial_state = FALSE
    /\ proc = "running"
    /\ exit_code = -1
    /\ camSamples = <<>>
    /\ camLog = <<>>
    /\ usbSamples = <<>>
    /\ usbLog = <<>>
    /\ winners = <<>>
    /\ seqLog = <<>>
    /\ access = "granted"
    /\ usb_error = FALSE
    /\ cam_skipped = FALSE
    /\ key = NewVault.key
    /\ encrypted_data = NewVault.encrypted_data
    /\ iv = NewVault.iv
    /\ nuked = NewVault.nuked
    /\ wipe_passes = NewVault.wipe_passes
    /\ NoClient
    /\ NoUi
    /\ NoClock
    /\ NoLife
    /\ threatLog = <<>>

\* One more call is made on the vault.
ClientCalls(name) ==
    /\ Len(calls) < MaxVaultCalls
    /\ calls' = Append(calls, name)

\* encrypt: `if self._nuked: return`
EncryptReturnsEarly_Never(v) == FALSE
EncryptReturnsEarly(v) == v.nuked

\* encrypt(p) is called: the wiped-check.
VaultEncrypt ==
    /\ vpc = "idle"
    /\ ClientCalls("encrypt")
    /\ \E p \in Plaintexts :
          IF EncryptReturnsEarly(Vault)
             THEN UNCHANGED <<vpc, plaintext>>
             ELSE vpc' = "gen_iv" /\ plaintext' = p
    /\ UNCHANGED <<restVars, vaultVars, nuked, decrypted>>

\* encrypt: self._iv = get_random_bytes(16), a fresh draw for each call.
VaultEncryptIv ==
    /\ vpc = "gen_iv"
    /\ iv' = get_random_bytes(IvLen, "iv" \o ToString(Len(calls)))
    /\ vpc' = "store"
    /\ UNCHANGED <<restVars, key, encrypted_data, wipe_passes, nuked, plaintext,
                   decrypted, calls>>

\* encrypt: the cipher is made from the key and IV now in the vault, the
\* text is encoded and its ciphertext stored; an exception (a key or nonce
\* the cipher rejects, a text that cannot be encoded) is caught and leaves
\* the ciphertext as it was.
VaultEncryptStore ==
    /\ vpc = "store"
    /\ encrypted_data' =
          IF AES_new(key, iv) /\ Encodable(plaintext)
             THEN encrypt_and_digest(key, iv, Utf8Encode(plaintext))
             ELSE encrypted_data
    /\ vpc' = "idle"
    /\ plaintext' = <<>>
    /\ UNCHANGED <<restVars, key, iv, wipe_passes, nuked, decrypted, calls>>

\* decrypt() is called by the client between its encrypt calls.
VaultDecrypt ==
    /\ vpc = "idle"
    /\ ClientCalls("decrypt")
    /\ decrypted' = decrypt(Vault)
    /\ UNCHANGED <<restVars, vaultVars, nuked, vpc, plaintext>>

\* nuke_memory() is called, and returns or raises.
VaultNuke ==
    /\ \E fail \in FailPoints(Vault) :
          /\ ClientCalls(IF NukeRaises(Vault, fail) THEN "nuke_raised" ELSE "nuke")
          /\ VaultBecomes(nuke_memory(Vault, fail))
    /\ UNCHANGED <<restVars, vpc, plaintext, decrypted>>

VaultNext ==
    \/ VaultEncrypt
    \/ VaultEncryptIv
    \/ VaultEncryptStore
    \/ VaultDecrypt
    \/ VaultNuke

VaultSpec == VaultInit /\ [][VaultNext]_vars

(***************************************************************************)
(* A status update on its way into the GUI.  The three threads that call   *)
(* _update_status make updates in any order and at any moment; the main    *)
(* loop starts, runs the queued callbacks one by one, and ends.  What the  *)
(* threads do besides is not followed here.                                *)
(***************************************************************************)

\* Everything but the GUI's callback queue.
uiRestVars ==
    <<cfgVars, threatLog, timeVars, lifeVars, clientVars, vaultVars, nuked, pc, tpc, panicVars,
      appVars, running, camVars, usbVars, procVars, seqLog>>

\* run() has built the vault and the GUI; the main loop is not yet running.
UiInit ==
    /\ bypass_usb = TRUE
    /\ enable_camera = TRUE
    /\ pc = [c \in Callers |->
                CASE c = "main" -> "cam_create"
                  [] c = "sig" -> "idle"
                  [] OTHER -> "none"]
    /\ tpc = [c \in Callers |-> "idle"]
    /\ panic_triggered = FALSE
    /\ panic_lock = "free"
    /\ vault_created = TRUE
    /\ gui_created = TRUE
    /\ monitor_created = [m \in Monitors |-> FALSE]
    /\ running = [m \in Monitors |-> FALSE]
    /\ bypass_mode = FALSE
    /\ last_face_count = 1
    /\ usb_present = FALSE
    /\ initial_state = FALSE
    /\ proc = "running"
    /\ exit_code = -1
    /\ camSamples = <<>>
    /\ camLog = <<>>
    /\ usbSamples = <<>>
    /\ usbLog = <<>>
    /\ winners = <<>>
    /\ seqLog = <<>>
    /\ access = "granted"
    /\ usb_error = FALSE
    /\ cam_skipped = FALSE
    /\ key = NewVault.key
    /\ encrypted_data = NewVault.encrypted_data
    /\ iv = NewVault.iv
    /\ nuked = NewVault.nuked
    /\ wipe_passes = NewVault.wipe_passes
    /\ NoClient
    /\ NoUi
    /\ NoClock
    /\ NoLife
    /\ threatLog = <<>>

\* Status updates a thread makes: the main thread's in _start_monitors,
\* the camera worker's and the USB guard's in their loops.
StatusEvents(src) ==
    CASE src = "main" -> {"camera=DISABLED", "threat=LOW"}
      [] src = "cam" -> {"camera=LOCKED", "camera=ARMED"}
      [] src = "usb" -> {"usb=SECURE", "usb=NO KEY"}

\* `self.after(0, callback)`: Tk runs callbacks of equal delay in the order
\* of the after calls, so the new callback goes behind those waiting.
TimerInsert_Front(q, e) == <<e>> \o q
TimerInsert(q, e) == Append(q, e)

\* An after call made by the main thread queues its callback; one made by
\* a worker thread is handed to the main loop, the worker waiting for it,
\* and raises RuntimeError when the main loop is not running.
AfterQueues(src, loop) == src = "main" \/ loop = "running"

\* _update_status: `if self.gui:` gui.update_status, any exception ignored.
\* The queue after thread src reports e, q being the queue before.
update_status(q, src, e) ==
    IF gui_created /\ AfterQueues(src, tk_loop) THEN TimerInsert(q, e) ELSE q

\* Thread src makes its next status update.  The main thread makes its
\* updates in _start_monitors, before it enters the main loop.
UiStatus(src) ==
    /\ ui_sent[src] < MaxUiEvents
    /\ src = "main" => tk_loop = "not_started"
    /\ \E text \in StatusEvents(src) :
          ui_queue' = update_status(ui_queue, src, <<src, ui_sent[src] + 1, text>>)
    /\ ui_sent' = [ui_sent EXCEPT ![src] = @ + 1]
    /\ UNCHANGED <<uiRestVars, tk_loop, ui_log>>

\* run(): self.gui.mainloop() begins.
UiLoopStart ==
    /\ tk_loop = "not_started"
    /\ tk_loop' = "running"
    /\ UNCHANGED <<uiRestVars, ui_queue, ui_log, ui_sent>>

\* The main loop runs the callback at the head of the queue:
\* status_panel.update_status(key, value).
UiDeliver ==
    /\ tk_loop = "running"
    /\ ui_queue # <<>>
    /\ ui_log' = Append(ui_log, Head(ui_queue))
    /\ ui_queue' = Tail(ui_queue)
    /\ UNCHANGED <<uiRestVars, tk_loop, ui_sent>>

\* The main loop ends; callbacks still queued are never run.
UiLoopEnd ==
    /\ tk_loop = "running"
    /\ tk_loop' = "ended"
    /\ UNCHANGED <<uiRestVars, ui_queue, ui_log, ui_sent>>

UiNext ==
    \/ \E src \in Sources : UiStatus(src)
    \/ UiLoopStart
    \/ UiDeliver
    \/ UiLoopEnd

UiSpec == UiInit /\ [][UiNext]_vars

(***************************************************************************)
(* The workers' polling of their _running flag, with time.  The clock      *)
(* counts tenths of a second.  Each worker sleeps between two tests of     *)
(* its flag, for the time its code path gives; what an iteration does      *)
(* besides is taken to take no time and to find nothing.  stop() may be    *)
(* called on either monitor at any moment.                                 *)
(***************************************************************************)

\* CameraSentinel.FRAME_INTERVAL = 0.5, USBGuard.CHECK_INTERVAL = 0.5, the
\* `time.sleep(1.0)` of the camera's standby loop and the
\* `join(timeout=2.0)` of stop(), in tenths of a second.
FRAME_INTERVAL == 5
CHECK_INTERVAL == 5
StandbySleep == 10
JoinTimeout == 20

\* Everything but the clock, the workers' positions and their flags.
timedRestVars ==
    <<cfgVars, threatLog, uiVars, lifeVars, clientVars, vaultVars, nuked, tpc, panicVars, appVars,
      camVars, usbVars, procVars, seqLog>>

\* The application in its main loop, both workers just past their
\* beginning and asleep for the first time: the camera worker in its loop
\* ("body") or, its camera missing, in standby; the USB guard in its loop,
\* the token present, or in bypass mode.
TimedInit ==
    /\ bypass_usb \in BOOLEAN
    /\ enable_camera = TRUE
    /\ \E cam_at \in {"body", "standby"} :
          /\ pc = [c \in Callers |->
                      CASE c = "main" -> "mainloop"
                        [] c = "sig" -> "idle"
                        [] c = "cam" -> cam_at
                        [] c = "usb" -> IF bypass_usb THEN "bypass" ELSE "body"]
          /\ camLog = IF cam_at = "body" THEN <<"camera=ARMED">>
                                         ELSE <<"camera=NO CAMERA">>
    /\ tpc = [c \in Callers |-> "idle"]
    /\ panic_triggered = FALSE
    /\ panic_lock = "free"
    /\ vault_created = TRUE
    /\ gui_created = TRUE
    /\ monitor_created = [m \in Monitors |-> TRUE]
    /\ running = [m \in Monitors |-> TRUE]
    /\ bypass_mode = bypass_usb
    /\ last_face_count = 1
    /\ usb_present = ~bypass_usb
    /\ initial_state = ~bypass_usb
    /\ proc = "running"
    /\ exit_code = -1
    /\ camSamples = <<>>
    /\ usbSamples = IF bypass_usb THEN <<>> ELSE <<TRUE>>
    /\ usbLog = IF bypass_usb THEN <<"usb=BYPASSED">> ELSE <<"usb=SECURE">>
    /\ winners = <<>>
    /\ seqLog = <<>>
    /\ access = "granted"
    /\ usb_error = FALSE
    /\ cam_skipped = FALSE
    /\ key = NewVault.key
    /\ encrypted_data = NewVault.encrypted_data
    /\ iv = NewVault.iv
    /\ nuked = NewVault.nuked
    /\ wipe_passes = NewVault.wipe_passes
    /\ NoClient
    /\ NoUi
    /\ NoClock
    /\ NoLife
    /\ threatLog = <<>>

\* The worker of monitor m is in one of its loops.
InLoop(m) == pc[m] \in {"body", "standby", "bypass"}

\* The sleep between two tests of the flag, by monitor and code path.
SleepOf(m, at) ==
    CASE at = "standby" -> StandbySleep
      [] at = "bypass" -> CHECK_INTERVAL
      [] m = "cam" -> FRAME_INTERVAL
      [] OTHER -> CHECK_INTERVAL

\* When the worker's sleep ends.
WakeAt(m) == last_test[m] + SleepOf(m, pc[m])

\* stop() has cleared the flag and is in its join, which ends when the
\* worker has ended or the timeout has passed.
Joining(m) == flag_down_at[m] >= 0 /\ stop_latency[m] < 0
JoinEnds(m) == pc[m] = "done" \/ now = flag_down_at[m] + JoinTimeout

\* A tenth of a second passes: no sleep and no join ends before.
TimedTick ==
    /\ now < MaxTime
    /\ \A m \in Monitors :
          /\ InLoop(m) => now < WakeAt(m)
          /\ Joining(m) => ~JoinEnds(m)
    /\ now' = now + 1
    /\ UNCHANGED <<timedRestVars, pc, running, last_test, flag_down_at, stop_latency>>

\* The worker's sleep ends and it tests its flag: `while self._running:`.
TimedPoll(m) ==
    /\ InLoop(m)
    /\ now = WakeAt(m)
    /\ last_test' = [last_test EXCEPT ![m] = now]
    /\ pc' = [pc EXCEPT ![m] = IF LoopTest(m, running) = "done" THEN "done" ELSE @]
    /\ UNCHANGED <<timedRestVars, running, now, flag_down_at, stop_latency>>

\* stop() is called on monitor m: the flag is cleared and the join begins.
TimedStop(m) ==
    /\ running[m]
    /\ running' = StopClearsFlag(running, m)
    /\ flag_down_at' = [flag_down_at EXCEPT ![m] = now]
    /\ UNCHANGED <<timedRestVars, pc, now, last_test, stop_latency>>

\* The join ends and stop() returns.
TimedStopReturns(m) ==
    /\ Joining(m)
    /\ JoinEnds(m)
    /\ stop_latency' = [stop_latency EXCEPT ![m] = now - flag_down_at[m]]
    /\ UNCHANGED <<timedRestVars, pc, running, now, last_test, flag_down_at>>

TimedNext ==
    \/ TimedTick
    \/ \E m \in Monitors : TimedPoll(m)
    \/ \E m \in Monitors : TimedStop(m)
    \/ \E m \in Monitors : TimedStopReturns(m)

TimedSpec == TimedInit /\ [][TimedNext]_vars

(***************************************************************************)
(* One monitor object, the USB guard just constructed, under start() and   *)
(* stop() calls made in any order.  Each start() makes a Thread object     *)
(* that runs _monitor_loop; a worker ends when it tests the flag and       *)
(* finds it down.  stop() waits for the worker at most 2 seconds, and a    *)
(* worker can be kept from its test for longer (a query of the file        *)
(* system, a frame read), so the next call may find the worker alive.      *)
(***************************************************************************)

\* Everything but the monitor's flag and its threads.
lifeRestVars ==
    <<cfgVars, threatLog, uiVars, timeVars, clientVars, vaultVars, nuked, pc,
      tpc, panicVars, appVars, camVars, usbVars, procVars, seqLog>>

\* _start_monitors has constructed the USB guard (the camera is disabled)
\* and is about to start it.
LifeInit ==
    /\ bypass_usb = FALSE
    /\ enable_camera = FALSE
    /\ pc = [c \in Callers |->
                CASE c = "main" -> "usb_start1"
                  [] c = "sig" -> "idle"
                  [] OTHER -> "none"]
    /\ tpc = [c \in Callers |-> "idle"]
    /\ panic_triggered = FALSE
    /\ panic_lock = "free"
    /\ vault_created = TRUE
    /\ gui_created = TRUE
    /\ monitor_created = [m \in Monitors |-> m = "usb"]
    /\ running = [m \in Monitors |-> FALSE]
    /\ bypass_mode = FALSE
    /\ last_face_count = 1
    /\ usb_present = FALSE
    /\ initial_state = FALSE
    /\ proc = "running"
    /\ exit_code = -1
    /\ camSamples = <<>>
    /\ camLog = <<>>
    /\ usbSamples = <<>>
    /\ usbLog = <<>>
    /\ winners = <<>>
    /\ seqLog = <<>>
    /\ access = "granted"
    /\ usb_error = FALSE
    /\ cam_skipped = FALSE
    /\ key = NewVault.key
    /\ encrypted_data = NewVault.encrypted_data
    /\ iv = NewVault.iv
    /\ nuked = NewVault.nuked
    /\ wipe_passes = NewVault.wipe_passes
    /\ NoClient
    /\ NoUi
    /\ NoClock
    /\ NoLife
    /\ threatLog = <<>>

\* One more call is made on the monitor.
LifeCalls(name) ==
    /\ Len(lifeCalls) < MaxLifeCalls
    /\ lifeCalls' = Append(lifeCalls, name)

\* start(): the flag is raised, a new Thread object replaces the one
\* self._thread referred to, and is started.
LifeStart ==
    /\ LifeCalls("start")
    /\ running' = [running EXCEPT !["usb"] = TRUE]
    /\ threads' = Append(threads, "running")
    /\ thread_ref' = Len(threads) + 1
    /\ UNCHANGED lifeRestVars

\* stop(): the flag is cleared; the join of self._thread, if there is one,
\* returns when that worker has ended or after 2 seconds.
LifeStop ==
    /\ LifeCalls("stop")
    /\ running' = StopClearsFlag(running, "usb")
    /\ UNCHANGED <<lifeRestVars, threads, thread_ref>>

\* A worker tests the flag, `while self._running:`, finds it down and ends.
LifeWorkerEnds(i) ==
    /\ threads[i] = "running"
    /\ LoopTest("usb", running) = "done"
    /\ threads' = [threads EXCEPT ![i] = "ended"]
    /\ UNCHANGED <<lifeRestVars, running, thread_ref, lifeCalls>>

LifeNext ==
    \/ LifeStart
    \/ LifeStop
    \/ \E i \in 1..Len(threads) : LifeWorkerEnds(i)

LifeSpec == LifeInit /\ [][LifeNext]_vars

(***************************************************************************)
(* Vocabulary of the properties.                                           *)
(***************************************************************************)

\* The steps of the destructive sequence, after the check-and-set.
SeqSteps == {"stop_cam", "stop_usb", "wipe", "notify", "exit"}

\* The worker thread of monitor m has been started.
Started(m) == pc[m] \notin {"none", "created"}

\* The elements of a sequence.
Range(s) == {s[i] : i \in 1..Len(s)}

\* The last three elements of a sequence (all of it when it is shorter).
Tail3(s) == IF Len(s) < 3 THEN s ELSE SubSeq(s, Len(s) - 2, Len(s))

\* How often e occurs in s.
Count(s, e) == Cardinality({i \in 1..Len(s) : s[i] = e})

(***************************************************************************)
(* C1.  Of all the _trigger_panic calls made, from any thread and in any   *)
(* interleaving, at most one passes the check-and-set; only that call is   *)
(* ever at a step of the destructive sequence, and every step performed    *)
(* was performed by it.  The flag is set exactly when a call has passed.   *)
(***************************************************************************)
C1_OneCallPassesCheckAndSet ==
    /\ Len(winners) <= 1
    /\ panic_triggered <=> winners # <<>>
    /\ Cardinality({c \in Callers : tpc[c] \in SeqSteps \cup {"set"}}) <= 1
    /\ \A c \in Callers : tpc[c] \in SeqSteps => winners = <<c>>
    /\ \A i \in 1..Len(seqLog) : winners = <<seqLog[i][1]>>

\* A worker's call came back as a no-op while the main thread's call is
\* executing the sequence.
C1_Witness ==
    /\ tpc["main"] \in SeqSteps
    /\ pc["cam"] = "done"
    /\ camLog # <<>>
    /\ camLog[Len(camLog)] = "panic"

(***************************************************************************)
(* C2.  The call that passed the check-and-set never returns control to    *)
(* its caller: it stays inside _trigger_panic until os._exit.              *)
(***************************************************************************)
C2_WinningCallNeverReturns ==
    winners # <<>> => tpc[winners[1]] # "idle"

(***************************************************************************)
(* C3.  The process never ends, and the panic flag is never left set with  *)
(* no call executing the sequence, while a created vault is un-erased.     *)
(***************************************************************************)
C3_NeverAbandonedUnwiped ==
    /\ (proc # "running" /\ vault_created) => nuked
    /\ (panic_triggered /\ vault_created /\ \A c \in Callers : tpc[c] = "idle")
          => nuked

(***************************************************************************)
(* C4.  In the destructive sequence the wipe comes after a stop request on *)
(* every started monitor (its _running flag is down), the UI notification  *)
(* directly after the wipe, and os._exit last.                             *)
(***************************************************************************)
C4_SequenceOrder ==
    \A i \in 1..Len(seqLog) :
       /\ seqLog[i][2] = "wipe" =>
             \A m \in Monitors : Started(m) =>
                /\ ~running[m]
                /\ \E j \in 1..(i - 1) : seqLog[j][2] = "stop_" \o m
       /\ seqLog[i][2] \in {"notify", "notify_failed"} =>
             (i > 1 /\ seqLog[i - 1][2] = "wipe")
       /\ seqLog[i][2] = "exit" => (i = Len(seqLog) /\ proc = "os_exit")

\* A complete sequence with both monitors started.
C4_Witness ==
    /\ Len(seqLog) = 5
    /\ proc = "os_exit"
    /\ Started("cam") /\ Started("usb")
    /\ nuked

(***************************************************************************)
(* C5.  A USB guard not in bypass mode whose baseline query found the      *)
(* token: the first later query that does not find it is the guard's last  *)
(* query; its last callbacks are usb=REMOVED, threat=CRITICAL and the      *)
(* panic callback, invoked once; and the loop has stopped (the worker is   *)
(* inside the panic callback, or has ended).                               *)
(***************************************************************************)
C5_RemovalTripsAndStops ==
    (/\ ~bypass_mode
     /\ Len(usbSamples) >= 2
     /\ usbSamples[1]
     /\ \E i \in 2..Len(usbSamples) : ~usbSamples[i])
    => /\ \A i \in 2..Len(usbSamples) : usbSamples[i] <=> i < Len(usbSamples)
       /\ Tail3(usbLog) = <<"usb=REMOVED", "threat=CRITICAL", "panic">>
       /\ Count(usbLog, "panic") = 1
       /\ Count(usbLog, "usb=REMOVED") = 1
       /\ tpc["usb"] # "idle" \/ pc["usb"] = "done"

\* The guard tripped on its third query, its panic call is over and the
\* worker has ended.
C5_Witness ==
    /\ usbSamples = <<TRUE, TRUE, FALSE>>
    /\ usbLog = <<"usb=SECURE", "usb=REMOVED", "threat=CRITICAL", "panic">>
    /\ tpc["usb"] = "idle"
    /\ pc["usb"] = "done"

(***************************************************************************)
(* C6.  Without bypass, once the startup check has passed, a query of the  *)
(* USB guard after its baseline query that does not find the token makes   *)
(* the guard invoke the panic callback.                                    *)
(***************************************************************************)
C6_AbsenceAfterStartupPanics ==
    (/\ ~bypass_usb
     /\ \E i \in 2..Len(usbSamples) : ~usbSamples[i])
    => "panic" \in Range(usbLog)

\* What the claim expects of a guard whose baseline query found no token:
\* NO KEY for the baseline, then one status per change of the result.
RECURSIVE UnarmedLog(_)
UnarmedLog(s) ==
    IF Len(s) <= 1 THEN <<"usb=NO KEY">>
    ELSE LET n == Len(s)
         IN  UnarmedLog(SubSeq(s, 1, n - 1)) \o
                (IF s[n] = s[n - 1] THEN <<>>
                 ELSE IF s[n] THEN <<"usb=SECURE">> ELSE <<"usb=NO KEY">>)

C8_BypassedGuardIsInert ==
    (bypass_mode /\ Started("usb"))
    => /\ usbSamples = <<>>
       /\ tpc["usb"] = "idle"
       /\ pc["usb"] \in {"begin", "bypass", "done"}
       /\ usbLog = IF pc["usb"] = "begin" THEN <<>> ELSE <<"usb=BYPASSED">>

\* A bypassed guard that was stopped and has ended.
C8_Witness ==
    /\ bypass_mode
    /\ pc["usb"] = "done"
    /\ usbLog = <<"usb=BYPASSED">>

(***************************************************************************)
(* C9.  A processed camera sample of more than one face is the worker's    *)
(* last sample, whatever the count before it; the worker's last callbacks  *)
(* are camera=BREACH, threat=CRITICAL and the panic callback, invoked      *)
(* once; and it begins no further iteration, whether its panic call        *)
(* returns or raises.                                                      *)
(***************************************************************************)
C9_IntrusionStopsWorker ==
    (\E i \in 1..Len(camSamples) : camSamples[i] > 1)
    => /\ \A i \in 1..Len(camSamples) : camSamples[i] > 1 <=> i = Len(camSamples)
       /\ Tail3(camLog) = <<"camera=BREACH", "threat=CRITICAL", "panic">>
       /\ Count(camLog, "panic") = 1
       /\ Count(camLog, "camera=BREACH") = 1
       /\ pc["cam"] = "body" => tpc["cam"] # "idle"

\* An intrusion right after an absence, the panic call over and the worker
\* ended.
C9_Witness ==
    /\ Len(camSamples) >= 2
    /\ camSamples[Len(camSamples)] > 1
    /\ camSamples[Len(camSamples) - 1] = 0
    /\ tpc["cam"] = "idle"
    /\ pc["cam"] = "done"

\* What the claim expects of the camera worker for the samples s: ARMED
\* when the camera is initialized, then, with the previous processed
\* sample taken as 1 before the first, LOCKED and blur on for a 0 not
\* preceded by a 0, ARMED and blur off for a 1 not preceded by a 1, and
\* BREACH, CRITICAL and panic for anything more.
RECURSIVE EdgeLog(_)
EdgeLog(s) ==
    IF s = <<>> THEN <<"camera=ARMED">>
    ELSE LET n == Len(s)
             previous == IF n = 1 THEN 1 ELSE s[n - 1]
         IN  EdgeLog(SubSeq(s, 1, n - 1)) \o
                (CASE s[n] = 0 /\ previous # 0 -> <<"camera=LOCKED", "blur=True">>
                   [] s[n] = 1 /\ previous # 1 -> <<"camera=ARMED", "blur=False">>
                   [] s[n] > 1 -> <<"camera=BREACH", "threat=CRITICAL", "panic">>
                   [] OTHER -> <<>>)

(***************************************************************************)
(* C10.  The callbacks of a camera worker that processes samples are       *)
(* edge-triggered from an assumed first state of one face: they are        *)
(* exactly EdgeLog of the processed samples, and a 0 or 1 sample never     *)
(* invokes panic.  In particular the samples 1, 0, 1, 2 give ARMED;        *)
(* LOCKED, blur on; ARMED, blur off; BREACH, CRITICAL, panic once.         *)
(***************************************************************************)
C10_EdgeTriggeredPresence ==
    /\ camSamples # <<>> => camLog = EdgeLog(camSamples)
    /\ Count(camLog, "panic") = Cardinality({i \in 1..Len(camSamples) : camSamples[i] > 1})
    /\ camSamples = <<1, 0, 1, 2>> =>
          camLog = <<"camera=ARMED",
                     "camera=LOCKED", "blur=True",
                     "camera=ARMED", "blur=False",
                     "camera=BREACH", "threat=CRITICAL", "panic">>

\* The samples 1, 0, 1, 2 have been processed.
C10_Witness ==
    camSamples = <<1, 0, 1, 2>>

\* A call named name is being made on the vault in this step.
Calling(name) == calls' # calls /\ calls'[Len(calls')] = name

\* The fields of the vault that hold the secret.
Fields == <<key, encrypted_data, iv>>

(***************************************************************************)
(* C11.  Once nuke_memory has returned, the key, the ciphertext and the IV *)
(* of the vault are all empty, whether or not an overwrite raised.         *)
(***************************************************************************)
C11_WipedFieldsEmpty ==
    nuked => (key = <<>> /\ encrypted_data = <<>> /\ iv = <<>>)

(***************************************************************************)
(* C12.  nuke_memory called on a vault that is already wiped changes no    *)
(* field of the vault and makes no overwrite.                              *)
(***************************************************************************)
C12_NukeIdempotent ==
    [][(nuked /\ Calling("nuke"))
          => UNCHANGED <<key, encrypted_data, iv, nuked, wipe_passes>>]_vars

\* nuke_memory has been called twice on a vault that held a ciphertext,
\* the first call having overwritten all three fields.
C12_Witness ==
    /\ calls = <<"encrypt", "nuke", "nuke">>
    /\ vpc = "idle"
    /\ nuked
    /\ wipe_passes = 3 * OverwritePasses

(***************************************************************************)
(* C13.  On a wiped vault every decrypt call returns the empty string, and *)
(* every encrypt call returns at once, leaving the key, the ciphertext and *)
(* the IV as they are.                                                     *)
(***************************************************************************)
C13_WipedVaultInert ==
    [][nuked =>
          /\ Calling("decrypt") => decrypted' = <<>>
          /\ Calling("encrypt") => (vpc' = "idle" /\ UNCHANGED <<Fields, nuked>>)]_vars

\* A text was stored and read back, the vault wiped, and encrypt and
\* decrypt called again.
C13_Witness ==
    /\ Len(calls) >= 5
    /\ SubSeq(calls, 1, 5) = <<"encrypt", "decrypt", "nuke", "encrypt", "decrypt">>
    /\ nuked
    /\ vpc = "idle"
    /\ decrypted = <<>>

(***************************************************************************)
(* C14.  When run()'s USB key check fails (no bypass, no token), the       *)
(* process ends with exit status 1 (runs that a SIGINT or SIGTERM ended    *)
(* are left aside).                                                        *)
(***************************************************************************)
C14_DeniedStartupExitsOne ==
    (access = "denied" /\ proc # "running" /\ winners # <<"sig">>)
    => exit_code = 1

(***************************************************************************)
(* C15.  When run()'s USB key check fails, then up to the end of the       *)
(* process the vault is never created, the GUI never built, and no monitor *)
(* created or started.                                                     *)
(***************************************************************************)
C15_DeniedStartupCreatesNothing ==
    access = "denied" =>
       /\ ~bypass_usb
       /\ ~vault_created /\ key = <<>>
       /\ ~gui_created
       /\ \A m \in Monitors : ~monitor_created[m] /\ pc[m] = "none" /\ ~running[m]

\* The check failed and the process has ended.
C15_Witness ==
    /\ access = "denied"
    /\ proc # "running"

(***************************************************************************)
(* C16.  The process-level triggers all lead into _trigger_panic: a signal *)
(* handler is always inside a _trigger_panic call; the main thread passes  *)
(* run()'s finally and the atexit hook without calling _trigger_panic only *)
(* when the panic flag is already set; so the process never ends with the  *)
(* flag clear.  (The emergency button and Escape call it unconditionally.) *)
(***************************************************************************)
C16_TriggersReachPanic ==
    /\ pc["sig"] = "handler" => tpc["sig"] # "idle"
    /\ (pc["main"] \in {"return0", "fini"} /\ tpc["main"] = "idle") => panic_triggered
    /\ proc # "running" => panic_triggered

\* The GUI main loop ended, and the _trigger_panic call made by run()'s
\* finally is executing the sequence.
C16_Witness ==
    /\ pc["main"] = "finally"
    /\ tpc["main"] \in SeqSteps
    /\ winners = <<"main">>

(***************************************************************************)
(* C17.  A token query of the USB guard's loop that ends in an enumeration *)
(* error does not make the guard invoke the panic callback, whatever the   *)
(* baseline was.                                                           *)
(***************************************************************************)
C17_EnumerationErrorNotTerminal ==
    (usb_error /\ Len(usbSamples) >= 2) => "panic" \notin Range(usbLog)

(***************************************************************************)
(* C18.  An iteration of the camera loop that gets no frame, or whose      *)
(* frame processing raises, is skipped: it leaves the remembered face      *)
(* count and the processed samples as they are, calls no status, blur or   *)
(* panic callback (so it does not count as a sample of 0 faces), and the   *)
(* loop goes on: the worker is in its next iteration, or has ended         *)
(* because it was told to stop.                                            *)
(***************************************************************************)
C18_FailedSampleSkipped ==
    [][cam_skipped' =>
          /\ UNCHANGED <<last_face_count, camSamples, camLog>>
          /\ tpc'["cam"] = "idle"
          /\ pc'["cam"] \in {"body", "done"}
          /\ (pc["cam"] = "body" /\ pc'["cam"] = "done") => ~running["cam"]]_vars

\* A failed iteration right after a sample of one face, the worker going on.
C18_Witness ==
    /\ cam_skipped
    /\ camSamples # <<>>
    /\ last_face_count = 1
    /\ pc["cam"] = "body"
    /\ running["cam"]

\* The camera worker could not initialize its camera: it is idling in
\* standby, or has left it.
Degraded ==
    /\ pc["cam"] \in {"standby", "done"}
    /\ "camera=ARMED" \notin Range(camLog)

(***************************************************************************)
(* C19.  A camera worker that could not initialize, whatever the cause,    *)
(* has reported an unavailable status (NO CAMERA or ERROR) exactly once    *)
(* and nothing else, has processed no sample, and is not in the panic      *)
(* callback.                                                               *)
(***************************************************************************)
C19_DegradedReportsOnce ==
    Degraded =>
       /\ Len(camLog) = 1
       /\ camLog[1] \in {"camera=NO CAMERA", "camera=ERROR"}
       /\ camSamples = <<>>
       /\ tpc["cam"] = "idle"

(***************************************************************************)
(* C20.  Every stop() call made on a monitor, from whichever thread, has   *)
(* cleared the monitor's _running flag and returned normally to            *)
(* _stop_monitors: its caller is still inside _trigger_panic, going on     *)
(* with the sequence.                                                      *)
(***************************************************************************)
C20_StopReturnsNormally ==
    \A i \in 1..Len(seqLog) :
       \A m \in Monitors :
          seqLog[i][2] = "stop_" \o m =>
             /\ ~running[m]
             /\ tpc[seqLog[i][1]] # "idle"

(***************************************************************************)
(* C21: the panic flag starts false, goes from false to true only in the   *)
(* step of a caller that holds the panic lock inside the check-and-set,    *)
(* and once true it stays true, whether the destructive sequence runs to   *)
(* the end, is aborted by an exception, or a later call is a no-op.        *)
(***************************************************************************)
C21_FlagMonotonic ==
    /\ ~panic_triggered
    /\ [][/\ panic_triggered => panic_triggered'
          /\ (~panic_triggered /\ panic_triggered') =>
                \E c \in Callers :
                    /\ panic_lock = c
                    /\ tpc[c] = "set"
                    /\ tpc'[c] = AfterCheckAndSet]_vars

\* The winning call was aborted by an exception, the process went on to
\* the interpreter's exit, and the flag is still set.
C21_Witness ==
    /\ panic_triggered
    /\ proc = "exit"
    /\ winners # <<>>
    /\ \A c \in Callers : tpc[c] = "idle"

(***************************************************************************)
(* C22: a UI notification that fails, or a UI that does not exist, does    *)
(* not abort the destructive sequence.  A caller past the notification     *)
(* step has wiped the vault (if one exists); after a failed notification   *)
(* the caller is at os._exit and able to take it, or has taken it: the     *)
(* sequence's next and last entry is the exit and the process is gone.     *)
(***************************************************************************)
C22_NotifyFailureHarmless ==
    /\ \A c \in Callers :
          tpc[c] = "exit" =>
             /\ vault_created => nuked
             /\ proc = "running" => Runnable(c)
    /\ \A i \in 1..Len(seqLog) :
          seqLog[i][2] = "notify_failed" =>
             /\ tpc[seqLog[i][1]] = "exit"
             /\ i = Len(seqLog) => proc = "running"
             /\ i < Len(seqLog) =>
                   /\ i + 1 = Len(seqLog)
                   /\ seqLog[i + 1] = <<seqLog[i][1], "exit">>
                   /\ proc = "os_exit"

\* The notification failed and the process was ended by os._exit.
C22_Witness ==
    /\ \E i \in 1..Len(seqLog) : seqLog[i][2] = "notify_failed"
    /\ proc = "os_exit"
    /\ nuked

(***************************************************************************)
(* C23: a nuke_memory call on an un-wiped vault in which an overwrite      *)
(* fails (fewer random overwrites are made than the vault's fields call    *)
(* for) returns normally, and leaves key, ciphertext and IV empty and the  *)
(* vault marked wiped.                                                     *)
(***************************************************************************)
C23_FailedWipeStillWipes ==
    [][(/\ calls' # calls
        /\ calls'[Len(calls')] \in {"nuke", "nuke_raised"}
        /\ ~nuked
        /\ wipe_passes' - wipe_passes < PassesDone(Vault, "none"))
       => /\ Calling("nuke")
          /\ key' = <<>>
          /\ encrypted_data' = <<>>
          /\ iv' = <<>>
          /\ nuked']_vars

\* A vault holding a ciphertext was wiped, the overwrite of the IV (after
\* those of key and ciphertext) failing.
C23_Witness ==
    /\ calls = <<"encrypt", "nuke">>
    /\ vpc = "idle"
    /\ nuked
    /\ key = <<>>
    /\ wipe_passes = 2 * OverwritePasses

(***************************************************************************)
(* C24: the USB guard's baseline is captured once, as the result of the    *)
(* query the worker makes when it begins, and never changes afterwards,    *)
(* whatever the later queries find.                                        *)
(***************************************************************************)
C24_BaselineFixed ==
    [][initial_state' # initial_state =>
          /\ pc["usb"] = "begin"
          /\ usbSamples = <<>>
          /\ initial_state' = usbSamples'[1]]_vars

\* The token was absent at the baseline, found by the second query and
\* missing again at the third: the baseline still says absent.
C24_Witness ==
    /\ usbSamples = <<FALSE, TRUE, FALSE>>
    /\ ~initial_state
    /\ pc["usb"] = "body"

(***************************************************************************)
(* C27: each monitor's worker invokes the panic callback at most once, and *)
(* once the invocation is over (it returned as a no-op, or raised) the     *)
(* worker has ended its loop.                                              *)
(***************************************************************************)
C27_PanicOncePerWorker ==
    /\ Count(camLog, "panic") <= 1
    /\ Count(usbLog, "panic") <= 1
    /\ (Count(camLog, "panic") = 1 /\ tpc["cam"] = "idle") => pc["cam"] = "done"
    /\ (Count(usbLog, "panic") = 1 /\ tpc["usb"] = "idle") => pc["usb"] = "done"

\* The camera worker's invocation passed the check-and-set and came back
\* by an exception; the USB guard's was a no-op.  Both workers have ended.
C27_Witness ==
    /\ winners = <<"cam">>
    /\ tpc["cam"] = "idle" /\ pc["cam"] = "done"
    /\ tpc["usb"] = "idle" /\ pc["usb"] = "done"
    /\ Count(camLog, "panic") = 1
    /\ Count(usbLog, "panic") = 1

\* The worker of monitor m takes a step.
WorkerStep(m) ==
    \/ pc'[m] # pc[m]
    \/ tpc'[m] # tpc[m]
    \/ m = "cam" /\ <<camSamples, camLog, cam_skipped>>' # <<camSamples, camLog, cam_skipped>>
    \/ m = "usb" /\ <<usbSamples, usbLog, usb_error>>' # <<usbSamples, usbLog, usb_error>>

(***************************************************************************)
(* C28: once stop() has cleared a started monitor's _running flag, the     *)
(* worker begins no new iteration: no step it takes with the flag down     *)
(* (the rest of the iteration in progress, the return or the exception of  *)
(* a panic callback invoked in it) leaves it at the start of an iteration. *)
(***************************************************************************)
C28_NoIterationAfterStop ==
    [][\A m \in Monitors :
          (~running[m] /\ Started(m) /\ WorkerStep(m))
             => ~(pc'[m] = "body" /\ tpc'[m] = "idle")]_vars

\* The camera monitor's flag was cleared by the main thread's sequence
\* while the worker had an iteration in progress.
C28_Witness ==
    /\ ~running["cam"]
    /\ pc["cam"] = "body"
    /\ tpc["cam"] = "idle"
    /\ winners = <<"main">>
    /\ camSamples # <<>>

(***************************************************************************)
(* C29: once the vault is wiped, no step stores an IV or a ciphertext in   *)
(* it, the steps of an encrypt call that passed its wiped-check before     *)
(* the wipe included.                                                      *)
(***************************************************************************)
C29_NoStoreAfterWipe ==
    [][nuked => (iv' = iv /\ encrypted_data' = encrypted_data)]_vars

(***************************************************************************)
(* C30: no _trigger_panic call waits for ever.  The signal handler, which  *)
(* runs on the main thread on top of the main thread's own frames, is      *)
(* never waiting for the panic lock while the main thread holds it: in     *)
(* that state the main thread cannot run to release the lock, and the      *)
(* handler cannot return to let it run.                                    *)
(***************************************************************************)
C30_HandlerNeverSelfBlocks ==
    ~(/\ pc["sig"] = "handler"
      /\ tpc["sig"] = "acquire"
      /\ panic_lock = "main")

\* The updates of one thread occur in s in the order the thread made them.
InGenerationOrder(s) ==
    \A i, j \in 1..Len(s) :
       (i < j /\ s[i][1] = s[j][1]) => s[i][2] < s[j][2]

PollInterval == FRAME_INTERVAL

(***************************************************************************)
(* C26: on every code path of both monitors, normal or standby, a worker   *)
(* in its loop tested its flag no more than the poll interval ago, and a   *)
(* stop() that has returned took no more than the poll interval (the time  *)
(* of the code between two sleeps, the epsilon, being zero here).          *)
(***************************************************************************)
C26_PollWithinInterval ==
    \A m \in Monitors :
       /\ InLoop(m) => now - last_test[m] <= PollInterval
       /\ stop_latency[m] <= PollInterval

(***************************************************************************)
(* C31: no threat update lowers the level after a monitor has reported     *)
(* threat=CRITICAL: the threat=LOW that _start_monitors reports comes      *)
(* before every monitor's threat=CRITICAL.                                 *)
(***************************************************************************)
C31_ThreatNeverLowered ==
    \A i, j \in 1..Len(threatLog) :
       (i < j /\ threatLog[i][2] = "CRITICAL") => threatLog[j][2] = "CRITICAL"

\* The workers of the monitor that are running.
LiveWorkers == {i \in 1..Len(threads) : threads[i] = "running"}

(***************************************************************************)
(* C32: whatever start() and stop() calls are made on a monitor, start()   *)
(* twice and start() after a stop() that did not see the worker end        *)
(* included, at most one worker of the monitor is running.                 *)
(***************************************************************************)
C32_AtMostOneWorker ==
    Cardinality(LiveWorkers) <= 1

\* The last element of s that is in S, "none" when there is none.
LastIn(s, S) ==
    LET I == {i \in 1..Len(s) : s[i] \in S}
    IN  IF I = {} THEN "none" ELSE s[CHOOSE i \in I : \A j \in I : j <= i]

\* The camera worker's last blur request and last camera status.
LastBlur == LastIn(camLog, {"blur=True", "blur=False"})
LastCameraStatus ==
    LastIn(camLog, {"camera=LOCKED", "camera=ARMED", "camera=BREACH",
                    "camera=NO CAMERA", "camera=ERROR"})

\* The count of the last processed sample.
LastCount == camSamples[Len(camSamples)]

\* The count of the last processed sample that was not an intrusion (the
\* presence state the worker is in), 1 before any.
LastPresence ==
    LET I == {i \in 1..Len(camSamples) : camSamples[i] <= 1}
    IN  IF I = {} THEN 1 ELSE camSamples[CHOOSE i \in I : \A j \in I : j <= i]

\* The step is a failed sample or an intrusion sample of the camera worker.
FailedOrIntrusionSample ==
    \/ cam_skipped' /\ camSamples' = camSamples
    \/ camSamples' # camSamples /\ camSamples'[Len(camSamples')] > 1

\* The step sends no blur request.
NoBlurSent ==
    Count(camLog', "blur=True") + Count(camLog', "blur=False")
       = Count(camLog, "blur=True") + Count(camLog, "blur=False")

(***************************************************************************)
(* C33, as claimed: after every processed sample the last blur request     *)
(* sent, if any was, says blur exactly when the last processed count is    *)
(* 0, and the last camera status is LOCKED exactly when that count is 0;   *)
(* intrusion samples and failed samples send no blur request.              *)
(***************************************************************************)
C33_BlurFollowsLastCount ==
    /\ [](camSamples # <<>> =>
            /\ LastBlur # "none" => (LastBlur = "blur=True" <=> LastCount = 0)
            /\ LastCameraStatus = "camera=LOCKED" <=> LastCount = 0)
    /\ [][FailedOrIntrusionSample => NoBlurSent]_vars

(***************************************************************************)
(* C33, amended: after every processed sample the last blur request sent,  *)
(* if any was, says blur exactly when the last processed count that was    *)
(* not an intrusion is 0 (an intrusion sends no blur request, so a blur    *)
(* engaged before it stays), which is the count the worker remembers; the  *)
(* last camera status is LOCKED exactly when the last processed count is   *)
(* 0; intrusion samples and failed samples send no blur request.           *)
(***************************************************************************)
C33_BlurFollowsPresence ==
    /\ [](camSamples # <<>> =>
            /\ LastBlur # "none" => (LastBlur = "blur=True" <=> LastPresence = 0)
            /\ last_face_count = LastPresence
            /\ LastCameraStatus = "camera=LOCKED" <=> LastCount = 0)
    /\ [][FailedOrIntrusionSample => NoBlurSent]_vars

\* Nobody in the frame, then two faces: the blur engaged by the first
\* sample is the last request, the status is BREACH.
C33_Witness ==
    /\ camSamples = <<0, 2>>
    /\ LastBlur = "blur=True"
    /\ LastCameraStatus = "camera=BREACH"
    /\ last_face_count = 0

====
